---- MODULE Spec2Model ----
(***************************************************************************)
(* Model of sf_tools/base/np_adjust.py: rotate, rotate_stack, pad2d,       *)
(* x_bins, x_bins_step, ftr, ftl and fancy_transpose.                      *)
(*                                                                         *)
(* An ndarray is a record [kind, shape, dtype, elems]: shape is the tuple  *)
(* of axis sizes (axis k of numpy is position k+1 of the tuple), elems     *)
(* maps every index tuple (0-based indices, as in numpy) to the element.   *)
(* A float element is an exact rational [n, d] in lowest terms, d > 0; the *)
(* inputs are small integers, on which the halves and quarters computed    *)
(* here are exact in IEEE double arithmetic as well.                       *)
(* A raised exception is a record [kind |-> "raise", exc].                 *)
(*                                                                         *)
(* The state is a chain of calls: data is the argument first passed in,    *)
(* arg the argument of the last call, ret what the last call returned or   *)
(* raised, calls the calls made so far (name and parameter).  There is one *)
(* specification per family of functions: SpecRotate, SpecPad, SpecBins    *)
(* and SpecTranspose.                                                      *)
(***************************************************************************)
EXTENDS Integers, Sequences, FiniteSets, TLC

VARIABLES data, arg, ret, calls

vars == <<data, arg, ret, calls>>

\* ---------------------------------------------------------------- bounds
MaxRank == 3
MaxDim == 3
MaxAxis == 2
MaxEdges == 3
MaxEdge == 3
MaxCalls == 2
MaxRoll == 2
MaxPad == 1
\* pad2d triples the rows at every call: it is called on arrays of at most
\* MaxPadSize elements
MaxPadSize == 36

\* ------------------------------------------------------- ndarray basics
Max(a, b) == IF a >= b THEN a ELSE b

Abs(a) == IF a >= 0 THEN a ELSE -a

RECURSIVE Gcd(_, _)
Gcd(a, b) == IF b = 0 THEN a ELSE Gcd(b, a % b)

\* a float: the rational n/d in lowest terms
Float(n, d) ==
    LET g == Gcd(Abs(n), d)
    IN  [n |-> n \div g, d |-> d \div g]

\* conversion of an element of an array of dtype dt to float
AsFloat(dt, x) == IF dt = "int" THEN Float(x, 1) ELSE x

FAdd(x, y) == Float(x.n * y.d + y.n * x.d, x.d * y.d)

FSub(x, y) == Float(x.n * y.d - y.n * x.d, x.d * y.d)

FHalf(x) == Float(x.n, 2 * x.d)

RECURSIVE MaxOf(_)
MaxOf(s) == IF s = <<>> THEN 0 ELSE Max(Head(s), MaxOf(Tail(s)))

\* the index tuples of an array of the given shape
Indices(shape) ==
    { idx \in [1..Len(shape) -> 0..(MaxOf(shape) - 1)] :
        \A k \in 1..Len(shape) : idx[k] < shape[k] }

RECURSIVE Size(_)
Size(shape) == IF shape = <<>> THEN 1 ELSE Head(shape) * Size(Tail(shape))

\* position of an index tuple in row-major order
RECURSIVE LinearIndex(_, _)
LinearIndex(shape, idx) ==
    IF shape = <<>> THEN 0
    ELSE Head(idx) * Size(Tail(shape)) + LinearIndex(Tail(shape), Tail(idx))

NdArray(shape, dtype, elems) ==
    [kind |-> "ndarray", shape |-> shape, dtype |-> dtype, elems |-> elems]

Raise(exc) == [kind |-> "raise", exc |-> exc]

IsArray(a) == a.kind = "ndarray"

Ndim(a) == Len(a.shape)

\* ------------------------------------------------------ numpy primitives
\* np.flip(m, axis): reverse the order of the elements along one axis
np_flip(m, axis) ==
    NdArray(m.shape, m.dtype,
            [idx \in Indices(m.shape) |->
                m.elems[[idx EXCEPT ![axis + 1] = m.shape[axis + 1] - 1 - idx[axis + 1]]]])

\* np.rot90(m, 2) with the default axes=(0, 1)
np_rot90_2(m) ==
    IF Ndim(m) < 2 THEN Raise("ValueError")
    ELSE np_flip(np_flip(m, 0), 1)

\* data[k]: the k-th sub-array along axis 0
Frame(m, k) ==
    NdArray(Tail(m.shape), m.dtype,
            [idx \in Indices(Tail(m.shape)) |-> m.elems[<<k>> \o idx]])

\* np.array(list of equally shaped arrays); np.array([]) is an empty
\* float vector
np_array_of(frames) ==
    IF frames = <<>> THEN NdArray(<<0>>, "float", <<>>)
    ELSE LET sh == <<Len(frames)>> \o frames[1].shape
         IN  NdArray(sh, frames[1].dtype,
                     [idx \in Indices(sh) |-> frames[Head(idx) + 1].elems[Tail(idx)]])

\* np.repeat(a, 2) on a vector
np_repeat2(a) == [k \in 1..(2 * Len(a)) |-> a[(k + 1) \div 2]]

\* np.pad(m, pad_width, 'constant'): pad_width is a tuple of (before, after)
\* pairs and must have one pair per axis
np_pad(m, pad_width) ==
    IF Len(pad_width) # Ndim(m) THEN Raise("ValueError")
    ELSE LET sh == [k \in 1..Ndim(m) |->
                        pad_width[k][1] + m.shape[k] + pad_width[k][2]]
             inner(idx) == \A k \in 1..Ndim(m) :
                              /\ idx[k] >= pad_width[k][1]
                              /\ idx[k] < pad_width[k][1] + m.shape[k]
         IN  NdArray(sh, m.dtype,
                     [idx \in Indices(sh) |->
                        IF inner(idx)
                        THEN m.elems[[k \in 1..Ndim(m) |-> idx[k] - pad_width[k][1]]]
                        ELSE IF m.dtype = "int" THEN 0 ELSE Float(0, 1)])

np_arange(n) == [k \in 1..n |-> k - 1]

\* np.roll(a, shift) on a vector: element i moves to position (i + shift) mod n
np_roll(a, shift) ==
    IF Len(a) = 0 THEN a
    ELSE [k \in 1..Len(a) |-> a[((k - 1 - shift) % Len(a)) + 1]]

\* np.transpose(m, axes): output axis k is input axis axes[k]
np_transpose(m, axes) ==
    LET sh == [k \in 1..Ndim(m) |-> m.shape[axes[k] + 1]]
        src(idx) == [a \in 1..Ndim(m) |->
                        idx[CHOOSE k \in 1..Ndim(m) : axes[k] + 1 = a]]
    IN  NdArray(sh, m.dtype, [idx \in Indices(sh) |-> m.elems[src(idx)]])

\* ---------------------------------------------------- np_adjust functions
\* variant: np.rot90(data) with the default k=1, a quarter turn
rotate_quarter(m) ==
    IF Ndim(m) < 2 THEN Raise("ValueError")
    ELSE np_transpose(np_flip(m, 1),
                      [k \in 1..Ndim(m) |-> IF k = 1 THEN 1 ELSE IF k = 2 THEN 0 ELSE k - 1])

\* variant: only axis 0 reversed
rotate_flip0(m) == IF Ndim(m) < 2 THEN Raise("ValueError") ELSE np_flip(m, 0)

rotate(m) == np_rot90_2(m)

\* [rotate(x) for x in data], then np.array(...); the first frame that
\* raises ends the call
rotate_stack(m) ==
    IF Ndim(m) = 0 THEN Raise("TypeError")
    ELSE LET frames == [k \in 1..m.shape[1] |-> rotate(Frame(m, k - 1))]
             failed == { k \in 1..m.shape[1] : ~IsArray(frames[k]) }
         IN  IF failed # {}
             THEN frames[CHOOSE k \in failed : \A j \in failed : k <= j]
             ELSE np_array_of(frames)

pad2d(m, padding) ==
    LET shape == m.shape
        shape2 == np_repeat2(shape)
    IN  IF Len(shape2) < 2 THEN Raise("IndexError")
        ELSE np_pad(m, << <<shape2[1], shape2[1]>>, <<shape2[2], shape2[2]>> >>)

\* vals[:-1] and vals[1:]
SliceShape(m) == <<Max(m.shape[1] - 1, 0)>> \o Tail(m.shape)

\* variant: floor division, (vals[:-1] + vals[1:]) // 2
x_bins_floordiv(vals) ==
    IF Ndim(vals) = 0 THEN Raise("IndexError")
    ELSE LET sh == SliceShape(vals)
             at(idx) == AsFloat(vals.dtype, vals.elems[idx])
             sum(idx) == FAdd(at(idx), at([idx EXCEPT ![1] = idx[1] + 1]))
         IN  NdArray(sh, "float",
                     [idx \in Indices(sh) |->
                        Float(sum(idx).n \div (2 * sum(idx).d), 1)])

x_bins(vals) ==
    IF Ndim(vals) = 0 THEN Raise("IndexError")
    ELSE LET sh == SliceShape(vals)
             at(idx) == AsFloat(vals.dtype, vals.elems[idx])
         IN  NdArray(sh, "float",
                     [idx \in Indices(sh) |->
                        FHalf(FAdd(at(idx), at([idx EXCEPT ![1] = idx[1] + 1])))])

\* variant: the offset taken from the whole range, vals[-1] - vals[0]
x_bins_step_range(vals) ==
    LET xb == x_bins(vals)
        at(idx) == AsFloat(vals.dtype, vals.elems[idx])
    IN  IF ~IsArray(xb) THEN xb
        ELSE IF vals.shape[1] < 1 THEN Raise("IndexError")
        ELSE NdArray(xb.shape, "float",
                     [idx \in Indices(xb.shape) |->
                        FAdd(xb.elems[idx],
                             FHalf(FSub(at(<<vals.shape[1] - 1>> \o Tail(idx)),
                                        at(<<0>> \o Tail(idx)))))])

\* variant: the offset is the whole width of the first bin
x_bins_step_width(vals) ==
    LET xb == x_bins(vals)
        at(idx) == AsFloat(vals.dtype, vals.elems[idx])
    IN  IF ~IsArray(xb) THEN xb
        ELSE IF vals.shape[1] < 2 THEN Raise("IndexError")
        ELSE NdArray(xb.shape, "float",
                     [idx \in Indices(xb.shape) |->
                        FAdd(xb.elems[idx],
                             FSub(at(<<1>> \o Tail(idx)), at(<<0>> \o Tail(idx))))])

x_bins_step(vals) ==
    LET xb == x_bins(vals)
        at(idx) == AsFloat(vals.dtype, vals.elems[idx])
    IN  IF ~IsArray(xb) THEN xb
        ELSE IF vals.shape[1] < 2 THEN Raise("IndexError")
        ELSE NdArray(xb.shape, "float",
                     [idx \in Indices(xb.shape) |->
                        FAdd(xb.elems[idx],
                             FHalf(FSub(at(<<1>> \o Tail(idx)),
                                        at(<<0>> \o Tail(idx)))))])

\* variant: the axes rolled the other way
fancy_transpose_left(m, roll) ==
    LET axis_roll == np_roll(np_arange(Ndim(m)), -roll)
    IN  np_transpose(m, axis_roll)

fancy_transpose(m, roll) ==
    LET axis_roll == np_roll(np_arange(Ndim(m)), roll)
    IN  np_transpose(m, axis_roll)

DefaultRoll == 1

ftr(m) == fancy_transpose(m, DefaultRoll)

\* variant: the roll argument left out
ftl_default(m) == fancy_transpose(m, DefaultRoll)

ftl(m) == fancy_transpose(m, -1)

\* ------------------------------------------------------------- the inputs
Shapes == UNION { [1..n -> 0..MaxDim] : n \in 0..MaxRank }

\* np.arange(base, base + size).reshape(shape)
Arange(shape, base) ==
    NdArray(shape, "int",
            [idx \in Indices(shape) |-> base + LinearIndex(shape, idx)])

\* arrays of distinct elements, of every shape
ArangeArrays == { Arange(sh, 0) : sh \in Shapes }

\* the same and, so that no element equals the padding value, from 1
PadArrays == { Arange(sh, b) : sh \in Shapes, b \in 0..1 }

\* arrays of distinct elements for the transposes: what matters there is the
\* number of axes, so the axes are kept short
TransposeArrays ==
    { Arange(sh, 0) : sh \in UNION { [1..n -> 0..MaxAxis] : n \in 0..MaxRank } }

\* bin edges: integer vectors of every length up to MaxEdges
EdgeArrays ==
    UNION { { NdArray(<<n>>, "int", [idx \in Indices(<<n>>) |-> v[idx[1] + 1]]) :
                v \in [1..n -> 0..MaxEdge] } : n \in 0..MaxEdges }

Rolls == (-MaxRoll)..MaxRoll

\* a padding argument: <<p>> is the integer p, <<px, py>> the pair
Paddings == { <<p>> : p \in 0..MaxPad } \cup { <<px, py>> : px, py \in 0..MaxPad }

\* ---------------------------------------------------------- the machine
\* The functions are pure: a behaviour is a chain of calls, each applied to
\* what the call before it returned, that starts from an input array and
\* ends at the first exception.
InitWith(inputs) ==
    /\ data \in inputs
    /\ arg = data
    /\ ret = data
    /\ calls = <<>>

CanCall == Len(calls) < MaxCalls /\ IsArray(ret)

Call(fn, par, result) ==
    /\ CanCall
    /\ arg' = ret
    /\ ret' = result
    /\ calls' = Append(calls, [fn |-> fn, par |-> par])
    /\ UNCHANGED data

Rotate == Call("rotate", <<>>, rotate(ret))

RotateStack == Call("rotate_stack", <<>>, rotate_stack(ret))

Pad2d ==
    /\ IsArray(ret) /\ Size(ret.shape) <= MaxPadSize
    /\ \E padding \in Paddings : Call("pad2d", padding, pad2d(ret, padding))

XBins == Call("x_bins", <<>>, x_bins(ret))

XBinsStep == Call("x_bins_step", <<>>, x_bins_step(ret))

Ftr == Call("ftr", <<>>, ftr(ret))

Ftl == Call("ftl", <<>>, ftl(ret))

FancyTranspose == \E roll \in Rolls : Call("fancy_transpose", <<roll>>, fancy_transpose(ret, roll))

\* rotation
InitRotate == InitWith(ArangeArrays)

NextRotate == Rotate \/ RotateStack

SpecRotate == InitRotate /\ [][NextRotate]_vars

\* zero padding
InitPad == InitWith(PadArrays)

NextPad == Pad2d

SpecPad == InitPad /\ [][NextPad]_vars

\* histogram bins
InitBins == InitWith(EdgeArrays)

NextBins == XBins \/ XBinsStep

SpecBins == InitBins /\ [][NextBins]_vars

\* axis-rolled transpose
InitTranspose == InitWith(TransposeArrays)

NextTranspose == Ftr \/ Ftl \/ FancyTranspose

SpecTranspose == InitTranspose /\ [][NextTranspose]_vars

\* ------------------------------------------------------------ properties
LastCall == calls[Len(calls)]

Called(fn) == calls # <<>> /\ LastCall.fn = fn

Rows(a) == a.shape[1]

Cols(a) == a.shape[2]

Zero(a) == IF a.dtype = "int" THEN 0 ELSE Float(0, 1)

\* the padding argument read as the pair (pad_x, pad_y)
PadX(par) == par[1]

PadY(par) == IF Len(par) = 1 THEN par[1] ELSE par[2]

\* C1: pad2d(A, padding) of a rank-2 array A has shape
\* (rows + 2*pad_x, cols + 2*pad_y), holds A at offset (pad_x, pad_y) and
\* zero everywhere else; padding 0 or (0, 0) returns A.
C1_Pad2dContract ==
    (Called("pad2d") /\ Ndim(arg) = 2) =>
        LET px == PadX(LastCall.par)
            py == PadY(LastCall.par)
            sh == <<Rows(arg) + 2 * px, Cols(arg) + 2 * py>>
        IN  /\ IsArray(ret)
            /\ ret.shape = sh
            /\ \A idx \in Indices(sh) :
                    ret.elems[idx] =
                        IF /\ idx[1] >= px /\ idx[1] < px + Rows(arg)
                           /\ idx[2] >= py /\ idx[2] < py + Cols(arg)
                        THEN arg.elems[<<idx[1] - px, idx[2] - py>>]
                        ELSE Zero(arg)
            /\ (px = 0 /\ py = 0) => ret = arg

\* the index (rows-1-i, cols-1-j, ...) opposite to (i, j, ...)
Opposite(shape, idx) ==
    [k \in 1..Len(idx) |-> IF k <= 2 THEN shape[k] - 1 - idx[k] ELSE idx[k]]

\* C2: rotate(A) of an array of rank >= 2 has the shape of A and
\* rotate(A)[i, j, ...] = A[rows-1-i, cols-1-j, ...], also when
\* rows # cols; [[0,1,2],[3,4,5],[6,7,8]] maps to [[8,7,6],[5,4,3],[2,1,0]].
C2_RotateContract ==
    (Called("rotate") /\ Ndim(arg) >= 2) =>
        /\ IsArray(ret)
        /\ ret.shape = arg.shape
        /\ \A idx \in Indices(arg.shape) :
                ret.elems[idx] = arg.elems[Opposite(arg.shape, idx)]
        /\ arg = Arange(<<3, 3>>, 0) =>
                \A i, j \in 0..2 : ret.elems[<<i, j>>] = 8 - (3 * i + j)

C2_Witness ==
    /\ Called("rotate")
    /\ arg = Arange(<<3, 2>>, 0)
    /\ IsArray(ret)
    /\ ret.elems[<<0, 0>>] = 5
    /\ ret.elems[<<2, 1>>] = 0

\* C3: rotate_stack(A) of an array of rank >= 3 has the shape of A and
\* its frame k is rotate(A[k]) for every k: the order of the frames is kept.
C3_RotateStackContract ==
    (Called("rotate_stack") /\ Ndim(arg) >= 3) =>
        /\ IsArray(ret)
        /\ ret.shape = arg.shape
        /\ \A k \in 0..(Rows(arg) - 1) : Frame(ret, k) = rotate(Frame(arg, k))

\* the edges of a rank-1 argument, as floats
Edge(a, i) == AsFloat(a.dtype, a.elems[<<i>>])

\* x = y + z and x = (y + z) / 2 on rationals, by cross multiplication
IsSum(x, y, z) == x.n * y.d * z.d = (y.n * z.d + z.n * y.d) * x.d

IsMean(x, y, z) == 2 * x.n * y.d * z.d = (y.n * z.d + z.n * y.d) * x.d

\* x = (a + b) / 2 + (f - g) / 2
IsStep(x, a, b, f, g) ==
    2 * x.n * a.d * b.d * f.d * g.d =
        x.d * (a.n * b.d * f.d * g.d + b.n * a.d * f.d * g.d
               + f.n * a.d * b.d * g.d - g.n * a.d * b.d * f.d)

EdgeCall(fn) == Called(fn) /\ Ndim(arg) = 1

\* C4: x_bins(V) of N >= 2 edges has length N-1 and
\* x_bins(V)[i] = (V[i] + V[i+1]) / 2 for every i, whatever the widths.
C4_XBinsContract ==
    (EdgeCall("x_bins") /\ Rows(arg) >= 2) =>
        /\ IsArray(ret)
        /\ ret.shape = <<Rows(arg) - 1>>
        /\ \A i \in 0..(Rows(arg) - 2) :
                IsMean(ret.elems[<<i>>], Edge(arg, i), Edge(arg, i + 1))

C4_Witness ==
    /\ EdgeCall("x_bins")
    /\ arg.dtype = "int"
    /\ arg.elems = [idx \in Indices(<<3>>) |-> <<0, 1, 3>>[idx[1] + 1]]
    /\ IsArray(ret)
    /\ ret.elems[<<0>>] = [n |-> 1, d |-> 2]
    /\ ret.elems[<<1>>] = [n |-> 2, d |-> 1]

EqualWidth(a) ==
    \A i \in 0..(Rows(a) - 2) :
        FSub(Edge(a, i + 1), Edge(a, i)) = FSub(Edge(a, 1), Edge(a, 0))

\* C5: x_bins_step(V) of N >= 2 edges has length N-1 and
\* x_bins_step(V)[i] = x_bins(V)[i] + (V[1] - V[0]) / 2, the offset coming
\* from the first interval whatever the widths; on equal-width edges
\* x_bins_step(V)[i] = V[i+1].
C5_XBinsStepContract ==
    (EdgeCall("x_bins_step") /\ Rows(arg) >= 2) =>
        /\ IsArray(ret)
        /\ ret.shape = <<Rows(arg) - 1>>
        /\ \A i \in 0..(Rows(arg) - 2) :
                /\ IsSum(ret.elems[<<i>>], x_bins(arg).elems[<<i>>],
                         FHalf(FSub(Edge(arg, 1), Edge(arg, 0))))
                /\ IsStep(ret.elems[<<i>>], Edge(arg, i), Edge(arg, i + 1),
                          Edge(arg, 1), Edge(arg, 0))
        /\ EqualWidth(arg) =>
                \A i \in 0..(Rows(arg) - 2) : ret.elems[<<i>>] = Edge(arg, i + 1)

C5_Witness ==
    /\ EdgeCall("x_bins_step")
    /\ arg.dtype = "int"
    /\ arg.elems = [idx \in Indices(<<3>>) |-> <<0, 1, 3>>[idx[1] + 1]]
    /\ IsArray(ret)
    /\ ret.elems[<<0>>] = [n |-> 1, d |-> 1]
    /\ ret.elems[<<1>>] = [n |-> 5, d |-> 2]

\* the index of A that fancy_transpose(A, r) reads at idx: output axis k is
\* input axis (k - r) mod N, so input axis a is output axis (a + r) mod N
RolledIndex(idx, r) ==
    [a \in 1..Len(idx) |-> idx[((a - 1 + r) % Len(idx)) + 1]]

\* C6: fancy_transpose(A, r) of an array of rank N >= 1 has output axis k
\* equal to input axis (k - r) mod N: its shape is the shape of A rolled by
\* r and it holds the same elements; r = 1 gives out[i0, i1, ..., i(N-1)] =
\* A[i1, ..., i(N-1), i0], r = -1 gives out[i0, ..., i(N-1)] =
\* A[i(N-1), i0, ..., i(N-2)].
C6_FancyTransposeContract ==
    (Called("fancy_transpose") /\ Ndim(arg) >= 1) =>
        LET r == LastCall.par[1]
            N == Ndim(arg)
        IN  /\ IsArray(ret)
            /\ Ndim(ret) = N
            /\ \A k \in 0..(N - 1) : ret.shape[k + 1] = arg.shape[((k - r) % N) + 1]
            /\ \A idx \in Indices(ret.shape) :
                    /\ ret.elems[idx] = arg.elems[RolledIndex(idx, r)]
                    /\ r = 1 => ret.elems[idx] = arg.elems[Tail(idx) \o <<Head(idx)>>]
                    /\ r = -1 => ret.elems[idx] =
                                    arg.elems[<<idx[N]>> \o SubSeq(idx, 1, N - 1)]
            /\ \A src \in Indices(arg.shape) :
                    ret.elems[RolledIndex(src, -r)] = arg.elems[src]

C6_Witness ==
    /\ Called("fancy_transpose")
    /\ LastCall.par = <<1>>
    /\ arg = Arange(<<1, 2, 2>>, 0)
    /\ IsArray(ret)
    /\ ret.shape = <<2, 1, 2>>
    /\ ret.elems[<<1, 0, 1>>] = 3
    /\ ret.elems[<<0, 0, 1>>] = 2

\* C7: rotate(rotate(A)) = A, in shape and in every element, for every
\* array of rank >= 2, square or not.
C7_RotateSelfInverse ==
    (/\ Len(calls) = 2
     /\ calls[1].fn = "rotate"
     /\ calls[2].fn = "rotate"
     /\ Ndim(data) >= 2) => ret = data

C7_Witness ==
    /\ Len(calls) = 2
    /\ calls[1].fn = "rotate"
    /\ calls[2].fn = "rotate"
    /\ data = Arange(<<2, 3>>, 0)
    /\ arg # data
    /\ ret = data

\* C8: fancy_transpose(fancy_transpose(A, 1), -1) = A for an array of any
\* rank, ftr(A) = fancy_transpose(A, 1) and ftl(A) = fancy_transpose(A, -1).
C8_RollsCancel ==
    /\ (/\ Len(calls) = 2
        /\ calls[1] = [fn |-> "fancy_transpose", par |-> <<1>>]
        /\ calls[2] = [fn |-> "fancy_transpose", par |-> <<-1>>]) => ret = data
    /\ Called("ftr") =>
            /\ IsArray(ret)
            /\ ret.shape = [k \in 1..Ndim(arg) |-> arg.shape[((k - 2) % Ndim(arg)) + 1]]
            /\ \A idx \in Indices(ret.shape) :
                    ret.elems[idx] = arg.elems[RolledIndex(idx, 1)]
    /\ Called("ftl") =>
            /\ IsArray(ret)
            /\ ret.shape = [k \in 1..Ndim(arg) |-> arg.shape[(k % Ndim(arg)) + 1]]
            /\ \A idx \in Indices(ret.shape) :
                    ret.elems[idx] = arg.elems[RolledIndex(idx, -1)]

C8_Witness ==
    /\ Len(calls) = 2
    /\ calls[1] = [fn |-> "fancy_transpose", par |-> <<1>>]
    /\ calls[2] = [fn |-> "fancy_transpose", par |-> <<-1>>]
    /\ data = Arange(<<1, 2, 2>>, 0)
    /\ arg.shape = <<2, 1, 2>>
    /\ ret = data

\* C9: pad2d(A, padding) of an array of rank >= 3 succeeds and pads axes 0
\* and 1 only: the trailing axes keep their sizes, the content is unchanged
\* along them and the border cells of the first two axes are zero.
C9_Pad2dHigherRank ==
    (Called("pad2d") /\ Ndim(arg) >= 3) =>
        /\ IsArray(ret)
        /\ Ndim(ret) = Ndim(arg)
        /\ \A k \in 3..Ndim(arg) : ret.shape[k] = arg.shape[k]
        /\ \E bx \in 0..Rows(ret), by \in 0..Cols(ret) :
                \A idx \in Indices(ret.shape) :
                    ret.elems[idx] =
                        IF /\ idx[1] >= bx /\ idx[1] < bx + Rows(arg)
                           /\ idx[2] >= by /\ idx[2] < by + Cols(arg)
                        THEN arg.elems[[idx EXCEPT ![1] = idx[1] - bx, ![2] = idx[2] - by]]
                        ELSE Zero(arg)

ShortEdgeCall(fn) == EdgeCall(fn) /\ Rows(arg) < 2

\* C10 as stated: x_bins and x_bins_step on fewer than two edges both end
\* in the array library's index or shape error and return no value.
C10_ShortEdgesRaise ==
    (ShortEdgeCall("x_bins") \/ ShortEdgeCall("x_bins_step")) =>
        /\ ~IsArray(ret)
        /\ ret.exc \in {"IndexError", "ValueError"}

\* C10: on fewer than two edges x_bins_step ends in the array library's
\* IndexError, which is not caught, and returns no value; x_bins raises
\* nothing and returns an empty float sequence.
C10_ShortEdges ==
    /\ ShortEdgeCall("x_bins_step") => ret = Raise("IndexError")
    /\ ShortEdgeCall("x_bins") =>
            /\ IsArray(ret)
            /\ ret.shape = <<0>>
            /\ ret.dtype = "float"

C10_Witness ==
    /\ ShortEdgeCall("x_bins_step")
    /\ Rows(arg) = 1
    /\ ret = Raise("IndexError")

====
